---- MODULE Spec2Model ----
(***************************************************************************)
(* Model of gather_png.py: the directory resolver (main, _prompt_for_dir)  *)
(* and the gatherer (gather), run over a small file system.                *)
(*                                                                         *)
(* A path is a sequence of name components relative to the working         *)
(* directory; a component is a pair <<stem, extension>>.  The file system  *)
(* maps every path of the universe to a node.  The content of a file is    *)
(* the path at which that content was first stored, so two initial files   *)
(* always differ in content.  Symbolic links are not modelled.             *)
(***************************************************************************)
EXTENDS Integers, Sequences, FiniteSets, TLC

\* ---- bounds ----
MaxFiles == 3      \* entries in the initial tree (Spec)
MaxMainFiles == 2  \* entries in the initial tree (SpecMain)
MaxLiveFiles == 2  \* entries in the initial tree (LiveSpec)
MaxRuns == 2       \* successive runs of gather on the same root

\* ---- names and paths ----
PlotsName == <<"plots", "">>
SubName   == <<"sub", "">>
DotName   == <<".", "">>
APng      == <<"a", "png">>
BPng      == <<"b", "png">>
OldPng    == <<"old", "png">>
CTxt      == <<"c", "txt">>
DPng      == <<"d", "png">>   \* always a directory in the initial tree

FileNames == {APng, BPng, OldPng, CTxt}
Names     == FileNames \cup {DPng, PlotsName, SubName}

Dirs == { <<>>, <<PlotsName>>, <<SubName>>,
          <<PlotsName, SubName>>, <<SubName, PlotsName>> }
\* the places an entry of the initial tree can be at
Slots == { Append(d, nm) : d \in Dirs, nm \in {APng, BPng, CTxt} }
           \cup { <<DPng>>, <<SubName, DPng>> }
           \cup { <<PlotsName, OldPng>>, <<SubName, PlotsName, OldPng>> }
AllPaths == Dirs \cup Slots

Parent(p) == SubSeq(p, 1, Len(p) - 1)
BaseName(p) == p[Len(p)]
IsUnder(p, d) == Len(p) > Len(d) /\ SubSeq(p, 1, Len(d)) = d

\* pathlib's parsing of a string, given as its "/"-separated segments:
\* "." segments are dropped, so "" and "." both denote the working directory.
PathOf(raw) == SelectSeq(raw, LAMBDA s : s # DotName)

\* ---- file-system nodes ----
NoEnt == [kind |-> "none", data |-> <<>>]
DirNode == [kind |-> "dir", data |-> <<>>]
FileNode(c) == [kind |-> "file", data |-> c]

TreeOf(S) ==
  [p \in AllPaths |->
     IF p \in S
       THEN (IF BaseName(p) = DPng THEN DirNode ELSE FileNode(p))
       ELSE IF p \in Dirs /\ (p = <<>> \/ \E s \in S : IsUnder(s, p))
              THEN DirNode
              ELSE NoEnt]

RECURSIVE SlotSets(_)
SlotSets(k) ==
  IF k = 0 THEN {{}}
  ELSE LET prev == SlotSets(k - 1)
       IN  prev \cup { S \cup {x} : S \in prev, x \in Slots }

\* the tree of the end-to-end scenario: root/{a.png, sub/b.png, sub/plots/old.png, c.txt}
ScenarioSlots == { <<APng>>, <<SubName, BPng>>, <<SubName, PlotsName, OldPng>>, <<CTxt>> }

\* ---- gather: pure parts ----
\* line 24: out_dir = top_dir / "plots"
OutDir(top) == Append(top, PlotsName)

\* what mkdir(parents=True, exist_ok=True) would raise
MkdirErrorParents(f, out) ==
  IF f[out].kind = "file" THEN "FileExistsError" ELSE "ok"

\* line 25: out_dir.mkdir(exist_ok=True), the error it raises
MkdirError(f, out) ==
  IF f[Parent(out)].kind = "none" THEN "FileNotFoundError"
  ELSE IF f[Parent(out)].kind = "file" THEN "NotADirectoryError"
  ELSE IF f[out].kind = "file" THEN "FileExistsError"
  ELSE "ok"

\* what a wrong "recreate the output directory" would do
MkdirWipe(f, out) ==
  [p \in DOMAIN f |-> IF p = out THEN DirNode
                      ELSE IF IsUnder(p, out) THEN NoEnt ELSE f[p]]

\* line 25: the file system after a successful mkdir(exist_ok=True)
MkdirExistOk(f, out) ==
  IF f[out].kind = "dir" THEN f ELSE [f EXCEPT ![out] = DirNode]

\* what the pattern "*" would match
MatchAny(nm) == TRUE

\* line 28: the pattern "*.png" (case-sensitive on the modelled host)
Match(nm) == nm[2] = "png"

\* os.scandir(d): the names of the entries of directory d
Entries(f, d) ==
  { nm \in Names : Append(d, nm) \in DOMAIN f /\ f[Append(d, nm)].kind # "none" }

\* rglob: the matching entries of one directory, listed when the walk reaches it
MatchSnapshot(f, d) == { nm \in Entries(f, d) : Match(nm) }

\* rglob: the subdirectories of one directory, listed after its matches are used up
SubdirSnapshot(f, d) == { nm \in Entries(f, d) : f[Append(d, nm)].kind = "dir" }

\* what a loop without the parent test would do
IsSkippedNever(file, out) == FALSE

\* what a test of the parent's name alone would do
IsSkippedByDirName(file, out) ==
  Parent(file) # <<>> /\ BaseName(Parent(file)) = PlotsName

\* line 29: file.parent == out_dir
IsSkipped(file, out) == Parent(file) = out

\* what a copy whose errors are caught and dropped would report
CopyErrorSwallowed(f, file, out) == "ok"

\* line 32: shutil.copy(file, out_dir), the error it raises
CopyError(f, file, out) ==
  LET dst == Append(out, BaseName(file)) IN
  IF f[file].kind = "none" THEN "FileNotFoundError"
  ELSE IF f[file].kind = "dir" THEN "IsADirectoryError"
  ELSE IF dst = file THEN "SameFileError"
  ELSE IF f[dst].kind = "dir" THEN "IsADirectoryError"
  ELSE "ok"

\* what shutil.move would do
MoveInto(f, file, out) ==
  [f EXCEPT ![Append(out, BaseName(file))] = FileNode(f[file].data),
            ![file] = NoEnt]

\* what a copy that keeps an existing destination file would do
CopyKeepFirst(f, file, out) ==
  IF f[Append(out, BaseName(file))].kind = "file" THEN f
  ELSE [f EXCEPT ![Append(out, BaseName(file))] = FileNode(f[file].data)]

\* line 32: the file system after a successful shutil.copy(file, out_dir)
CopyInto(f, file, out) ==
  [f EXCEPT ![Append(out, BaseName(file))] = FileNode(f[file].data)]

\* line 33: n += 1
NextCount(k) == k + 1

\* ---- state ----
VARIABLES
  fs,        \* the file system
  argv,      \* main: the command-line argument, [given, raw]
  picked,    \* _prompt_for_dir: the dialog's answer, [asked, raw]
  top_dir,   \* gather's argument
  pc,        \* "main", "prompt", "mkdir", "scan", "done", "failed"
  n,         \* gather's counter
  stack,     \* the rglob generator: frames [dir, stage, pending]
  out,       \* the lines printed so far (the counts)
  err,       \* the exception that ended the run, or "none"
  run,       \* number of the current run of gather
  start,     \* the file system when the current run started
  trace,     \* the entries the loop has received in this run, [file, act]
  results    \* one record per finished run, [status, count, names]

vars == <<fs, argv, picked, top_dir, pc, n, stack, out, err, run, start, trace, results>>

Tops == { <<>>, <<SubName>> }
NotGiven == [given |-> FALSE, raw |-> <<>>]
NotAsked == [asked |-> FALSE, raw |-> <<>>]
\* raw argument strings: ".", "sub", "./sub"
ArgRaws == { <<DotName>>, <<SubName>>, <<DotName, SubName>> }
\* dialog answers: "" (cancelled), "sub"
DialogRaws == { <<>>, <<SubName>> }

DestNames(f, d) == { nm \in Names : Append(d, nm) \in DOMAIN f /\ f[Append(d, nm)].kind # "none" }

InitCommon ==
  /\ n = 0 /\ stack = <<>> /\ out = <<>> /\ err = "none" /\ run = 1
  /\ start = fs /\ trace = <<>> /\ results = <<>>

\* gather(top_dir) called directly
Init ==
  /\ fs \in { TreeOf(S) : S \in SlotSets(MaxFiles) \cup {ScenarioSlots} }
  /\ argv = NotGiven /\ picked = NotAsked
  /\ top_dir \in Tops
  /\ pc = "mkdir"
  /\ InitCommon

\* the program started from the command line
InitMain ==
  /\ fs \in { TreeOf(S) : S \in SlotSets(MaxMainFiles) }
  /\ argv = NotGiven /\ picked = NotAsked
  /\ top_dir = <<>>
  /\ pc = "main"
  /\ InitCommon

InitLive ==
  /\ fs \in { TreeOf(S) : S \in SlotSets(MaxLiveFiles) }
  /\ argv = NotGiven /\ picked = NotAsked
  /\ top_dir \in Tops
  /\ pc = "mkdir"
  /\ InitCommon

\* ---- main and _prompt_for_dir ----
\* lines 38-48: parse the arguments; a given argument is used as it is
Main ==
  /\ pc = "main"
  /\ \E given \in BOOLEAN :
       IF given
         THEN \E raw \in ArgRaws :
                /\ argv' = [given |-> TRUE, raw |-> raw]
                /\ top_dir' = PathOf(raw)
                /\ pc' = "mkdir"
         ELSE /\ argv' = NotGiven
              /\ pc' = "prompt"
              /\ UNCHANGED top_dir
  /\ UNCHANGED <<fs, picked, n, stack, out, err, run, start, trace, results>>

\* lines 9-19 and 44: the dialog returns, Path(picked) goes to gather
Prompt ==
  /\ pc = "prompt"
  /\ \E raw \in DialogRaws :
       /\ picked' = [asked |-> TRUE, raw |-> raw]
       /\ top_dir' = PathOf(raw)
  /\ pc' = "mkdir"
  /\ UNCHANGED <<fs, argv, n, stack, out, err, run, start, trace, results>>

\* ---- gather ----
Finished(status) ==
  results' = Append(results, [status |-> status, count |-> n,
                              names |-> DestNames(fs, OutDir(top_dir))])

\* lines 24-27: create the destination, reset the counter, create the generator
Mkdir ==
  /\ pc = "mkdir"
  /\ LET od == OutDir(top_dir) IN
       IF MkdirError(fs, od) # "ok"
         THEN /\ pc' = "failed"
              /\ err' = MkdirError(fs, od)
              /\ Finished("failed")
              /\ UNCHANGED <<fs, n, stack>>
         ELSE /\ fs' = MkdirExistOk(fs, od)
              /\ pc' = "scan"
              /\ n' = 0
              /\ stack' = << [dir |-> top_dir, stage |-> "select",
                              pending |-> MatchSnapshot(fs', top_dir)] >>
              /\ UNCHANGED <<err, results>>
  /\ UNCHANGED <<argv, picked, top_dir, out, run, start, trace>>

Top == stack[Len(stack)]
Rest == SubSeq(stack, 1, Len(stack) - 1)

\* lines 28-31: the next match lies in the destination and is ignored
Skip ==
  /\ pc = "scan" /\ stack # <<>> /\ Top.stage = "select"
  /\ \E nm \in Top.pending :
       LET file == Append(Top.dir, nm) IN
       /\ IsSkipped(file, OutDir(top_dir))
       /\ stack' = Append(Rest, [Top EXCEPT !.pending = @ \ {nm}])
       /\ trace' = Append(trace, [file |-> file, act |-> "skip"])
  /\ UNCHANGED <<fs, argv, picked, top_dir, pc, n, out, err, run, start, results>>

\* lines 28-33: the next match is copied and counted
Copy ==
  /\ pc = "scan" /\ stack # <<>> /\ Top.stage = "select"
  /\ \E nm \in Top.pending :
       LET file == Append(Top.dir, nm) IN
       /\ ~IsSkipped(file, OutDir(top_dir))
       /\ CopyError(fs, file, OutDir(top_dir)) = "ok"
       /\ fs' = CopyInto(fs, file, OutDir(top_dir))
       /\ n' = NextCount(n)
       /\ stack' = Append(Rest, [Top EXCEPT !.pending = @ \ {nm}])
       /\ trace' = Append(trace, [file |-> file, act |-> "copy"])
  /\ UNCHANGED <<argv, picked, top_dir, pc, out, err, run, start, results>>

\* lines 28-32: shutil.copy raises, the exception leaves gather
CopyFail ==
  /\ pc = "scan" /\ stack # <<>> /\ Top.stage = "select"
  /\ \E nm \in Top.pending :
       LET file == Append(Top.dir, nm) IN
       /\ ~IsSkipped(file, OutDir(top_dir))
       /\ CopyError(fs, file, OutDir(top_dir)) # "ok"
       /\ err' = CopyError(fs, file, OutDir(top_dir))
       /\ trace' = Append(trace, [file |-> file, act |-> "fail"])
  /\ pc' = "failed"
  /\ stack' = <<>>
  /\ Finished("failed")
  /\ UNCHANGED <<fs, argv, picked, top_dir, n, out, run, start>>

\* line 28: the matches of the directory are used up, its subdirectories are listed
Rescan ==
  /\ pc = "scan" /\ stack # <<>> /\ Top.stage = "select" /\ Top.pending = {}
  /\ stack' = Append(Rest, [Top EXCEPT !.stage = "dirs",
                                       !.pending = SubdirSnapshot(fs, Top.dir)])
  /\ UNCHANGED <<fs, argv, picked, top_dir, pc, n, out, err, run, start, trace, results>>

\* line 28: the walk enters a subdirectory and lists its matches
Descend ==
  /\ pc = "scan" /\ stack # <<>> /\ Top.stage = "dirs"
  /\ \E nm \in Top.pending :
       stack' = Append(Append(Rest, [Top EXCEPT !.pending = @ \ {nm}]),
                       [dir |-> Append(Top.dir, nm), stage |-> "select",
                        pending |-> MatchSnapshot(fs, Append(Top.dir, nm))])
  /\ UNCHANGED <<fs, argv, picked, top_dir, pc, n, out, err, run, start, trace, results>>

\* line 28: a directory is finished
Ascend ==
  /\ pc = "scan" /\ stack # <<>> /\ Top.stage = "dirs" /\ Top.pending = {}
  /\ stack' = Rest
  /\ UNCHANGED <<fs, argv, picked, top_dir, pc, n, out, err, run, start, trace, results>>

\* line 35: the generator is exhausted, the summary is printed
Finish ==
  /\ pc = "scan" /\ stack = <<>>
  /\ out' = Append(out, n)
  /\ pc' = "done"
  /\ Finished("done")
  /\ UNCHANGED <<fs, argv, picked, top_dir, n, stack, err, run, start, trace>>

\* gather is called again on the same root
NextRun ==
  /\ pc \in {"done", "failed"} /\ run < MaxRuns
  /\ run' = run + 1
  /\ pc' = "mkdir"
  /\ n' = 0 /\ stack' = <<>> /\ err' = "none"
  /\ start' = fs /\ trace' = <<>>
  /\ UNCHANGED <<fs, argv, picked, top_dir, out, results>>

Gather == Mkdir \/ Skip \/ Copy \/ CopyFail \/ Rescan \/ Descend \/ Ascend \/ Finish

Next == Gather \/ NextRun
NextMain == Main \/ Prompt \/ Gather \/ NextRun

Spec == Init /\ [][Next]_vars
SpecMain == InitMain /\ [][NextMain]_vars
\* the interpreter runs gather's loop without pause
LiveSpec == InitLive /\ [][Next]_vars /\ WF_vars(Gather)

TypeOK ==
  /\ fs \in [AllPaths -> [kind : {"none", "dir", "file"}, data : Slots \cup {<<>>}]]
  /\ top_dir \in Tops
  /\ pc \in {"main", "prompt", "mkdir", "scan", "done", "failed"}
  /\ n \in Nat /\ run \in 1..MaxRuns

\* ---- the notions the properties are stated in ----
Dest == Append(top_dir, PlotsName)
IsPng(nm) == nm[2] = "png"
InTree(p) == IsUnder(p, top_dir)
\* matching files whose immediate parent is not the destination
Sources(f) ==
  { p \in Slots : InTree(p) /\ f[p].kind = "file" /\ IsPng(BaseName(p)) /\ Parent(p) # Dest }
\* matching files that are nowhere under the destination
SourcesOutside(f) ==
  { p \in Slots : InTree(p) /\ f[p].kind = "file" /\ IsPng(BaseName(p)) /\ ~IsUnder(p, Dest) }
\* matching entries (files or directories) that are nowhere under the destination
MatchedOutside(f) ==
  { p \in Slots : InTree(p) /\ f[p].kind # "none" /\ IsPng(BaseName(p)) /\ ~IsUnder(p, Dest) }
\* matching entries (files or directories) whose immediate parent is not the destination
MatchedNotInDest(f) ==
  { p \in Slots : InTree(p) /\ f[p].kind # "none" /\ IsPng(BaseName(p)) /\ Parent(p) # Dest }
CopiedAt == { i \in DOMAIN trace : trace[i].act = "copy" }
CopiedFiles == { trace[i].file : i \in CopiedAt }
Visited == { trace[i].file : i \in DOMAIN trace }
LastOf(I) == CHOOSE i \in I : \A j \in I : j <= i
DoneRuns == { i \in DOMAIN results : results[i].status = "done" }
NonMatchingUntouched ==
  \A p \in Slots : ~IsPng(BaseName(p)) => fs[p] = start[p]

\* C1 (as stated): with k the number of matching files not under T/plots, a
\* finished run has made exactly k copies and printed k, and no non-matching
\* file is copied or changed.
C1_Original ==
  /\ NonMatchingUntouched
  /\ pc = "done" =>
       /\ n = Cardinality(SourcesOutside(start))
       /\ out[Len(out)] = Cardinality(SourcesOutside(start))

\* C1 (amended): with k the number of matching files whose immediate parent
\* is not T/plots, a run that finishes has copied exactly those k files into
\* T/plots and printed k; no non-matching file is ever copied or changed.
C1_Amended ==
  /\ NonMatchingUntouched
  /\ pc = "done" =>
       /\ n = Cardinality(Sources(start))
       /\ out[Len(out)] = Cardinality(Sources(start))
       /\ CopiedFiles = Sources(start)
       /\ Cardinality(CopiedAt) = Cardinality(Sources(start))
       /\ \A p \in Sources(start) : fs[Append(Dest, BaseName(p))].kind = "file"

C1_Witness ==
  /\ pc = "done" /\ run = 1 /\ n = 2
  /\ \E p \in Slots : start[p].kind = "file" /\ ~IsPng(BaseName(p)) /\ InTree(p)
  /\ \E p \in CopiedFiles : IsUnder(p, Dest)

\* C2 (as stated): the second of two successive runs prints 0.
C2_Original ==
  \A i \in DOMAIN results :
    (i >= 2 /\ results[i].status = "done") => results[i].count = 0

\* C2 (amended): the second of two successive runs prints the same count as
\* the first: only the entries whose parent is the destination are skipped,
\* every matching file outside it is copied again.
C2_Amended ==
  /\ \A i \in DOMAIN results :
       (i >= 2 /\ results[i].status = "done") =>
          /\ results[i - 1].status = "done"
          /\ results[i].count = results[i - 1].count
  /\ \A i \in DOMAIN trace :
       (trace[i].act = "skip") <=> (Parent(trace[i].file) = Dest)
  /\ (run >= 2 /\ pc = "done") => CopiedFiles = Sources(start)

C2_Witness ==
  /\ run = 2 /\ pc = "done" /\ Len(results) = 2
  /\ results[1].status = "done" /\ results[1].count = 2 /\ results[2].count = 2
  /\ \E i \in DOMAIN trace : trace[i].act = "skip"

InScenario == start = TreeOf(ScenarioSlots) /\ top_dir = <<>> /\ run = 1 /\ pc = "done"

\* C3 (as stated): for root/{a.png, sub/b.png, sub/plots/old.png, c.txt} one
\* run leaves exactly {a.png, b.png, old.png} in root/plots and prints 2.
C3_Original ==
  InScenario => /\ DestNames(fs, Dest) = {APng, BPng, OldPng}
                /\ out = <<2>>

\* C3 (amended): for root/{a.png, sub/b.png, sub/plots/old.png, c.txt} one
\* run leaves exactly {a.png, b.png, old.png} in root/plots and prints 3:
\* sub/plots/old.png is copied too, its parent is not root/plots.
C3_Amended ==
  InScenario => /\ DestNames(fs, Dest) = {APng, BPng, OldPng}
                /\ out = <<3>>
                /\ n = 3
                /\ fs[<<PlotsName, OldPng>>] = FileNode(<<SubName, PlotsName, OldPng>>)
                /\ fs[<<SubName, PlotsName, OldPng>>] = start[<<SubName, PlotsName, OldPng>>]

C3_Witness == InScenario /\ <<SubName, PlotsName, OldPng>> \in CopiedFiles

\* C4: after a cancelled dialog gather fails like on a missing root: the
\* destination is not created, nothing is copied, nothing is printed.
C4_CancelFails ==
  (picked.asked /\ picked.raw = <<>> /\ pc # "prompt") =>
     /\ pc \in {"mkdir", "failed"}
     /\ fs = start
     /\ out = <<>>
     /\ pc = "failed" => err = "FileNotFoundError"

\* C5 (as stated): a run creates no directory but root/plots, deletes nothing
\* and leaves every file that existed before it as it was.
C5_Original ==
  \A p \in AllPaths :
    /\ start[p].kind = "file" => fs[p] = start[p]
    /\ (start[p].kind # "dir" /\ fs[p].kind = "dir") => p = Dest

\* C5 (amended): a run creates no directory but root/plots, deletes and
\* renames nothing, and leaves every file outside root/plots as it was; all
\* it writes are files in root/plots under the base names of their sources,
\* and a file that was already there under such a name is overwritten.
C5_Amended ==
  \A p \in AllPaths :
    /\ (start[p].kind # "none" /\ Parent(p) # Dest) => fs[p] = start[p]
    /\ start[p].kind # "none" => fs[p].kind = start[p].kind
    /\ fs[p] # start[p] =>
         \/ p = Dest /\ start[p] = NoEnt /\ fs[p] = DirNode
         \/ /\ Parent(p) = Dest /\ fs[p].kind = "file"
            /\ \E s \in Sources(start) :
                 BaseName(s) = BaseName(p) /\ fs[p].data = start[s].data

C5_Witness ==
  /\ pc = "done"
  /\ \E p \in Slots : Parent(p) = Dest /\ start[p].kind = "file" /\ fs[p] # start[p]
  /\ \E p \in Slots : Parent(p) = Dest /\ start[p].kind = "file" /\ fs[p] = start[p]

\* C6: gather on a path that does not exist fails with FileNotFoundError at
\* the mkdir: the root is not created, nothing is copied, nothing is printed.
C6_MissingRoot ==
  start[top_dir].kind = "none" =>
     /\ pc \in {"mkdir", "failed"}
     /\ fs = start
     /\ out = <<>>
     /\ trace = <<>>
     /\ pc = "failed" => err = "FileNotFoundError"

C6_Witness ==
  /\ start[top_dir].kind = "none" /\ pc = "failed" /\ err = "FileNotFoundError"
  /\ \E p \in Slots : start[p].kind = "file" /\ IsPng(BaseName(p))

\* C7: after a first run that finished, the set of names in T/plots stays
\* what that run left: a second run adds no name and removes none.
C7_Idempotent ==
  (run >= 2 /\ results[1].status = "done") =>
     DestNames(fs, Dest) = results[1].names

C7_Witness ==
  /\ run = 2 /\ pc = "done" /\ results[1].status = "done"
  /\ Cardinality(CopiedAt) >= 2
  /\ results[1].names # {}

\* an entry the loop got that cannot be copied: a matched directory outside the destination
Uncopyable(file) == Parent(file) # Dest /\ start[file].kind = "dir"

\* C8: when the copy of a matched entry fails, the run ends there: it is the
\* last entry the loop got, the copies made before it are still in the
\* destination, and no summary is printed for the run.
C8_FailFast ==
  \A i \in DOMAIN trace :
    Uncopyable(trace[i].file) =>
       /\ i = Len(trace)
       /\ pc = "failed" /\ err = "IsADirectoryError"
       /\ Len(out) = Cardinality(DoneRuns) /\ results[run].status = "failed"
       /\ n = Cardinality(CopiedAt)
       /\ \A j \in CopiedAt :
            /\ j < i
            /\ fs[Append(Dest, BaseName(trace[j].file))].kind = "file"

C8_Witness ==
  /\ pc = "failed" /\ run = 1 /\ trace # <<>> /\ Uncopyable(trace[Len(trace)].file)
  /\ CopiedAt # {}
  /\ Sources(start) \ Visited # {}

\* C9: when the run is over, a destination file that was copied in this run
\* holds the content of the last source of that name the walk visited; two
\* sources of one name are both counted and make one destination file.
C9_LastWins ==
  pc = "done" =>
    /\ \A nm \in FileNames :
         LET I == { i \in CopiedAt : BaseName(trace[i].file) = nm }
         IN  I # {} => fs[Append(Dest, nm)] = FileNode(start[trace[LastOf(I)].file].data)
    /\ \A a \in Sources(start), b \in Sources(start) :
         (a # b /\ Sources(start) = {a, b} /\ BaseName(a) = BaseName(b)) =>
            /\ n = 2 /\ out[Len(out)] = 2
            /\ DestNames(fs, Dest) \ DestNames(start, Dest) \subseteq {BaseName(a)}
            /\ start[Append(Dest, BaseName(a))].kind = "none" =>
                 DestNames(fs, Dest) \ DestNames(start, Dest) = {BaseName(a)}

C9_Witness ==
  /\ pc = "done" /\ run = 1 /\ top_dir = <<>>
  /\ Sources(start) = { <<SubName, APng>>, <<PlotsName, SubName, APng>> }
  /\ start[<<PlotsName, APng>>].kind = "none"
  /\ n = 2
  /\ fs[<<PlotsName, APng>>] = FileNode(<<SubName, APng>>)

\* what both readings of C10 share: an entry the walk meets that this run
\* created has the destination as its immediate parent and is skipped
CreatedAreSkipped ==
  \A i \in DOMAIN trace :
    start[trace[i].file].kind = "none" =>
       Parent(trace[i].file) = Dest /\ trace[i].act = "skip"

\* C10 (as stated): every run leaves the scanning state; an entry the walk
\* meets that this run created lies in the destination and is skipped, and
\* the count never exceeds the number of matching entries that were outside
\* the destination (nowhere under it) when the run started.
C10_Original ==
  /\ [](n <= Cardinality(MatchedOutside(start)) /\ CreatedAreSkipped)
  /\ (pc = "scan") ~> (pc \in {"done", "failed"})

\* C10 (amended): every run leaves the scanning state; an entry the walk
\* meets that this run created lies in the destination and is skipped, and
\* the count never exceeds the number of matching entries whose immediate
\* parent was not the destination when the run started.
C10_Terminates ==
  /\ [](n <= Cardinality(MatchedNotInDest(start)) /\ CreatedAreSkipped)
  /\ (pc = "scan") ~> (pc \in {"done", "failed"})

C10_Witness ==
  /\ pc = "done" /\ run = 1
  /\ \E i \in DOMAIN trace : start[trace[i].file].kind = "none" /\ trace[i].act = "skip"
  /\ \E p \in CopiedFiles : IsUnder(p, Dest)
  /\ n = Cardinality(MatchedNotInDest(start))
  /\ n > Cardinality(MatchedOutside(start))
====
